---------------------------- MODULE Spec2Model ----------------------------
(***************************************************************************)
(* ConvertToCzAndSingleGates (cirq/circuits/convert_to_cz_and_single_gates) *)
(*                                                                         *)
(* One call of optimization_at(circuit, index, op) is modelled as a state  *)
(* machine.  The recursion of convert is an explicit call stack: a frame   *)
(* is one running list comprehension                                       *)
(*     [self.convert(e) for e in ops.flatten_op_tree(converted)]           *)
(* The collaborators (protocols.unitary, protocols.decompose_once,         *)
(* decompositions.two_qubit_matrix_to_operations, ops.flatten_op_tree) are *)
(* the environment.  What unitary and decompose_once answer for an         *)
(* operation is carried by the operation (fields mat and dec), so that     *)
(* asking twice gives the same answer; the operations of a tree are        *)
(* revealed one by one as the flattening generator yields them.            *)
(***************************************************************************)
EXTENDS Naturals, Sequences, FiniteSets

(* Total number of Operation objects of one run: op, plus every operation  *)
(* that synthesis or decomposition produces at any depth.                  *)
MaxOps == 3

(* Qubit counts of the operations considered; 3 stands for "3 or more".    *)
QubitCounts == {1, 2, 3}

(* CZPowGate exponents: 1 (plain CZ), a numeric partial one, a symbol.     *)
Exponents == {"1", "0.5", "t"}

VARIABLES
    ignore_failures,    \* self.ignore_failures
    allow_partial_czs,  \* self.allow_partial_czs
    pc,                 \* "start" | "convert" | "done" | "raised" | "overflow"
    stack,              \* the running list comprehensions of convert
    result,             \* what the top-level self.convert(op) returned
    summary,            \* what optimization_at returned
    op0,                \* the operation optimization_at is called with
    created             \* history: created[i] is the operation with id i,
                        \* the operation whose tree yielded it, and what
                        \* _convert_one did with it

vars == <<ignore_failures, allow_partial_czs, op0, pc, stack, result,
          summary, created>>

----------------------------------------------------------------------------
(* Operations and operation trees *)

(* The qubit lists of an operation on n qubits: in line order or reversed. *)
QubitLists(n) == { [i \in 1..n |-> i], [i \in 1..n |-> n + 1 - i] }

(* A GateOperation of a CZPowGate.  It has a unitary unless the exponent   *)
(* is a symbol.                                                            *)
CZPowOp(i, e, qs) ==
    [id |-> i, gate |-> "CZPow", exponent |-> e, qubits |-> qs,
     mat |-> (e # "t"), dec |-> "none"]

(* A measurement: no unitary, no decomposition.                            *)
MeasOp(i, qs) ==
    [id |-> i, gate |-> "Meas", exponent |-> "-", qubits |-> qs,
     mat |-> FALSE, dec |-> "none"]

(* Any other operation.  m: protocols.unitary(op, None) is not None.       *)
(* d: protocols.decompose_once(op, None) is None ("none"), is op itself    *)
(* ("self"), or is a tree of other operations ("tree").                    *)
OtherOp(i, qs, m, d) ==
    [id |-> i, gate |-> "Other", exponent |-> "-", qubits |-> qs,
     mat |-> m, dec |-> d]

NoOp == [id |-> 0, gate |-> "None", exponent |-> "-", qubits |-> <<>>,
         mat |-> FALSE, dec |-> "none"]

(* The operations with id i whose qubit list is one of qss. *)
OpsOn(i, qss) ==
       { CZPowOp(i, e, qs) : e \in Exponents,
                             qs \in { l \in qss : Len(l) = 2 } }
  \cup { MeasOp(i, qs) : qs \in qss }
  \cup { OtherOp(i, qs, m, d) : qs \in qss,
                                m \in BOOLEAN,
                                d \in {"none", "self", "tree"} }

(* An OP_TREE: an Operation, or a list of OP_TREEs. *)
Leaf(op) == [leaf |-> TRUE, op |-> op, kids |-> <<>>]
Node(ts) == [leaf |-> FALSE, op |-> NoOp, kids |-> ts]

NoResult == Leaf(NoOp)

RECURSIVE FlattenFrom(_, _)
RECURSIVE flatten_op_tree(_)
(* ops.flatten_op_tree: the operations of a tree, left to right. *)
flatten_op_tree(t) ==
    IF t.leaf THEN <<t.op>> ELSE FlattenFrom(t.kids, 1)
FlattenFrom(ts, i) ==
    IF i > Len(ts) THEN <<>>
    ELSE flatten_op_tree(ts[i]) \o FlattenFrom(ts, i + 1)

----------------------------------------------------------------------------
(* _convert_one *)

(* What _convert_one(op) does.  ret: it returns op itself ("op"), returns  *)
(* a tree that is not op ("tree"), or raises TypeError ("raise").  via: the *)
(* statement that ended it.  calls: the collaborators it consulted, in     *)
(* order.  args: what it passed to the synthesis.                          *)
Outcome(r, v, c, a) == [ret |-> r, via |-> v, calls |-> c, args |-> a]

NoArgs == [q0 |-> 0, q1 |-> 0, allow_partial_czs |-> FALSE]

(* Mutant: every CZPowGate is kept, whatever its exponent. *)
IsKeptCZAnyExponent(op) == op.gate = "CZPow"

(* Mutant: only the plain CZ is kept; allow_partial_czs is not read. *)
IsKeptCZExactOnly(op) == op.gate = "CZPow" /\ op.exponent = "1"

(* isinstance(op, ops.GateOperation) and isinstance(op.gate, ops.CZPowGate) *)
(* and (self.allow_partial_czs or op.gate.exponent == 1)                   *)
IsKeptCZ(op) ==
    /\ op.gate = "CZPow"
    /\ (allow_partial_czs \/ op.exponent = "1")

(* Mutant: only a measurement of one qubit is recognised. *)
is_measurement_of_one_qubit(op) == op.gate = "Meas" /\ Len(op.qubits) = 1

(* ops.MeasurementGate.is_measurement(op) *)
is_measurement(op) == op.gate = "Meas"

(* Mutant: the component's own allow_partial_czs is handed on. *)
SynthArgsOwnFlag(op) ==
    [q0 |-> op.qubits[1], q1 |-> op.qubits[2],
     allow_partial_czs |-> allow_partial_czs]

(* The arguments of decompositions.two_qubit_matrix_to_operations. *)
SynthArgs(op) ==
    [q0 |-> op.qubits[1], q1 |-> op.qubits[2], allow_partial_czs |-> FALSE]

(* Mutant: the test of ignore_failures is inverted. *)
FailurePolicyInverted(op) ==
    IF ~ignore_failures
    THEN Outcome("op", "ignored", <<"unitary", "decompose_once">>, NoArgs)
    ELSE Outcome("raise", "error", <<"unitary", "decompose_once">>, NoArgs)

(* `if self.ignore_failures: return op`, else `raise TypeError(...)` *)
FailurePolicy(op) ==
    IF ignore_failures
    THEN Outcome("op", "ignored", <<"unitary", "decompose_once">>, NoArgs)
    ELSE Outcome("raise", "error", <<"unitary", "decompose_once">>, NoArgs)

(* _convert_one(op): the tests in the order of the code.  op.mat is        *)
(* `protocols.unitary(op, None) is not None`, op.dec the answer of         *)
(* `protocols.decompose_once(op, None)`.                                   *)
_convert_one(op) ==
    IF IsKeptCZ(op) THEN Outcome("op", "cz", <<>>, NoArgs)
    ELSE IF is_measurement(op) THEN Outcome("op", "meas", <<>>, NoArgs)
    ELSE IF op.mat /\ Len(op.qubits) = 1
        THEN Outcome("op", "oneq", <<"unitary">>, NoArgs)
    ELSE IF op.mat /\ Len(op.qubits) = 2
        THEN Outcome("tree", "synth", <<"unitary", "synthesis">>, SynthArgs(op))
    ELSE IF op.dec = "self"
        THEN Outcome("op", "selfdec", <<"unitary", "decompose_once">>, NoArgs)
    ELSE IF op.dec = "tree"
        THEN Outcome("tree", "decomp", <<"unitary", "decompose_once">>, NoArgs)
    ELSE FailurePolicy(op)

----------------------------------------------------------------------------
(* The collaborators' trees *)

(* decompositions.two_qubit_matrix_to_operations(q0, q1, mat, allow):      *)
(* single-qubit gates with a unitary on q0 and on q1, CZ on (q0, q1), and  *)
(* CZ**t only if allow.                                                    *)
two_qubit_matrix_to_operations(i, a) ==
       { OtherOp(i, <<q>>, TRUE, "none") : q \in {a.q0, a.q1} }
  \cup { CZPowOp(i, e, <<a.q0, a.q1>>) :
             e \in IF a.allow_partial_czs THEN {"1", "0.5"} ELSE {"1"} }

(* protocols.decompose_once(op, None), when a tree: operations on the      *)
(* leading qubits of op.                                                   *)
PrefixLists(qs) == { SubSeq(qs, 1, n) : n \in 1..Len(qs) }

decompose_once(i, op) == OpsOn(i, PrefixLists(op.qubits))

----------------------------------------------------------------------------
(* convert and optimization_at *)

(* Mutant: convert is not applied again below the top: what a tree yields *)
(* is taken as it is.                                                      *)
IsUnchangedBelowTop(op, out) == out.ret = "op" \/ op.id > 1

(* Mutant: the test `converted is op` is missing. *)
NeverUnchanged(op, out) == FALSE

(* `converted is op` *)
IsUnchanged(op, out) == out.ret = "op"

(* Mutant: the converted children are collected newest first. *)
CollectInFront(acc, t) == <<t>> \o acc

(* The list comprehension appends a converted child. *)
Collect(acc, t) == Append(acc, t)

NoSummary == [none |-> TRUE, clear_span |-> 0,
              new_operations |-> NoResult, clear_qubits |-> <<>>]

(* Mutant: the cleared span is the number of new operations. *)
SummaryOfWideSpan(op, converted) ==
    IF converted = Leaf(op) THEN NoSummary
    ELSE [none |-> FALSE, clear_span |-> Len(flatten_op_tree(converted)),
          new_operations |-> converted, clear_qubits |-> op.qubits]

(* optimization_at, from `if converted is op` on. *)
SummaryOf(op, converted) ==
    IF converted = Leaf(op) THEN NoSummary
    ELSE [none |-> FALSE, clear_span |-> 1,
          new_operations |-> converted, clear_qubits |-> op.qubits]

(* A frame: convert(op) is evaluating its list comprehension over the tree *)
(* that _convert_one(op) returned.  acc: the children converted so far.    *)
(* n: the operations the tree has yielded so far.  ret = "op": the tree is *)
(* op itself, which flatten_op_tree yields once.                           *)
Frame(e, out) == [op |-> e, ret |-> out.ret, via |-> out.via,
                  args |-> out.args, acc |-> <<>>, n |-> 0]

Top == stack[Len(stack)]

(* The recursion depth at which Python gives up (RecursionError); deeper   *)
(* than any chain of MaxOps operations.                                    *)
StackCap == MaxOps + 1

Entry(e, par, out) ==
    [op |-> e, parent |-> par, ret |-> out.ret, via |-> out.via,
     calls |-> out.calls, args |-> out.args]

(* Mutant: the comprehension swallows a child's TypeError and goes on. *)
AfterRaiseSkipChild(stk) ==
    [pc |-> IF stk = <<>> THEN "raised" ELSE "convert", stack |-> stk]

(* A TypeError raised under the frames stk leaves all of them. *)
AfterRaise(stk) == [pc |-> "raised", stack |-> <<>>]

(* convert(e) returns t to the frames stk: to the comprehension on top, or *)
(* to optimization_at, which builds its summary.                           *)
Return(stk, t) ==
    IF stk = <<>>
    THEN /\ pc' = "done"
         /\ stack' = <<>>
         /\ result' = t
         /\ summary' = SummaryOf(op0, t)
    ELSE /\ pc' = "convert"
         /\ stack' = [stk EXCEPT ![Len(stk)].acc = Collect(@, t)]
         /\ UNCHANGED <<result, summary>>

(* self.convert(e) is called from under the frames stk. *)
Convert(e, stk) ==
    LET out == _convert_one(e)
    IN  IF out.ret = "raise"
        THEN /\ pc' = AfterRaise(stk).pc
             /\ stack' = AfterRaise(stk).stack
             /\ UNCHANGED <<result, summary>>
        ELSE IF IsUnchanged(e, out)
        THEN Return(stk, Leaf(e))
        ELSE IF Len(stk) >= StackCap
        THEN /\ pc' = "overflow"
             /\ stack' = <<>>
             /\ UNCHANGED <<result, summary>>
        ELSE /\ pc' = "convert"
             /\ stack' = Append(stk, Frame(e, out))
             /\ UNCHANGED <<result, summary>>

----------------------------------------------------------------------------
(* The state machine *)

Init ==
    /\ ignore_failures \in BOOLEAN
    /\ allow_partial_czs \in BOOLEAN
    /\ op0 \in OpsOn(1, UNION { QubitLists(n) : n \in QubitCounts })
    /\ pc = "start"
    /\ stack = <<>>
    /\ result = NoResult
    /\ summary = NoSummary
    /\ created = <<>>

(* optimization_at(circuit, index, op) calls self.convert(op). *)
OptimizationAt ==
    /\ pc = "start"
    /\ created' = <<Entry(op0, 0, _convert_one(op0))>>
    /\ Convert(op0, <<>>)
    /\ UNCHANGED <<ignore_failures, allow_partial_czs, op0>>

(* The tree of the top frame yields its next operation e, and the          *)
(* comprehension calls self.convert(e).                                    *)
NextChild ==
    /\ pc = "convert"
    /\ stack # <<>>
    /\ LET stk == [stack EXCEPT ![Len(stack)].n = @ + 1]
       IN  IF Top.ret = "op"
           THEN /\ Top.n = 0
                /\ Convert(Top.op, stk)
                /\ UNCHANGED created
           ELSE /\ Len(created) < MaxOps
                /\ \E e \in (IF Top.via = "synth"
                             THEN two_qubit_matrix_to_operations(
                                      Len(created) + 1, Top.args)
                             ELSE decompose_once(Len(created) + 1, Top.op)) :
                      /\ created' = Append(created,
                                        Entry(e, Top.op.id, _convert_one(e)))
                      /\ Convert(e, stk)
    /\ UNCHANGED <<ignore_failures, allow_partial_czs, op0>>

(* The tree of the top frame is exhausted: the comprehension's list is     *)
(* what convert returns.                                                   *)
Exhaust ==
    /\ pc = "convert"
    /\ stack # <<>>
    /\ Top.ret = "op" => Top.n = 1
    /\ Return(SubSeq(stack, 1, Len(stack) - 1), Node(Top.acc))
    /\ UNCHANGED <<ignore_failures, allow_partial_czs, op0, created>>

Next == OptimizationAt \/ NextChild \/ Exhaust

Spec == Init /\ [][Next]_vars

(* A call that has started runs on: nothing suspends it. *)
FairSpec == Spec /\ WF_vars(Next)

----------------------------------------------------------------------------
(* What the properties speak of, stated on the operations themselves *)

Ids == 1..Len(created)

(* The leaf operations of what the top-level convert returned. *)
Leaves == flatten_op_tree(result)

(* Section 4.1 of the specification: rule 1 or rule 2. *)
ClassifierLegal(o) ==
    \/ o.gate = "CZPow" /\ (allow_partial_czs \/ o.exponent = "1")
    \/ o.gate = "Meas"

(* Neither legal, nor with a matrix on 1 or 2 qubits, nor decomposable. *)
Unconvertible(o) ==
    /\ ~ClassifierLegal(o)
    /\ ~o.mat \/ Len(o.qubits) \notin {1, 2}
    /\ o.dec = "none"

SingleQubitWithMatrix(o) == o.mat /\ Len(o.qubits) = 1

(* decompose_once is reached and answers with the operation itself. *)
OwnDecomposition(o) ==
    /\ ~ClassifierLegal(o)
    /\ ~o.mat \/ Len(o.qubits) \notin {1, 2}
    /\ o.dec = "self"

(* A 2-qubit operation with a matrix that the classifier does not keep. *)
SynthesisCase(o) ==
    /\ Len(o.qubits) = 2
    /\ o.mat
    /\ ~ClassifierLegal(o)

(* What the synthesis may return under its contract, canonical mode. *)
CanonicalGate(o) ==
    \/ o.gate = "Other" /\ SingleQubitWithMatrix(o)
    \/ o.gate = "CZPow" /\ o.exponent = "1"

RECURSIVE ExpectedFrom(_, _)
RECURSIVE ExpectedLeaves(_)
(* The leaf sequence that section 4.3 step 4 asks of convert(created[i].op): *)
(* the operation itself where the one-step conversion returned it, else    *)
(* the children's leaf sequences in the order the tree yielded them.       *)
ExpectedLeaves(i) ==
    IF created[i].ret = "op" THEN <<created[i].op>>
    ELSE ExpectedFrom(i, i + 1)
ExpectedFrom(i, j) ==
    IF j > Len(created) THEN <<>>
    ELSE IF created[j].parent = i
        THEN ExpectedLeaves(j) \o ExpectedFrom(i, j + 1)
    ELSE ExpectedFrom(i, j + 1)

----------------------------------------------------------------------------
(* C1, as stated: when convert(op) returns, every leaf of the result is    *)
(* legal by the Classifier (rule 1 or rule 2) or was passed through by the *)
(* ignore_failures policy.                                                 *)
C1_LeavesLegalOrPassed ==
    pc = "done" =>
        \A k \in 1..Len(Leaves) :
            \/ ClassifierLegal(Leaves[k])
            \/ ignore_failures /\ Unconvertible(Leaves[k])

(* C1, amended: when convert(op) returns, every leaf of the result is      *)
(* legal by the Classifier, or is a single-qubit operation with a unitary  *)
(* matrix, or is an operation that decompose_once returned as itself, or   *)
(* was passed through by the ignore_failures policy.                       *)
C1_LeavesInVocabularyOrPassed ==
    pc = "done" =>
        \A k \in 1..Len(Leaves) :
            \/ ClassifierLegal(Leaves[k])
            \/ SingleQubitWithMatrix(Leaves[k])
            \/ OwnDecomposition(Leaves[k])
            \/ ignore_failures /\ Unconvertible(Leaves[k])

(* A decomposition has returned a legal CZ beside a single-qubit gate with *)
(* a matrix.                                                               *)
C1_Witness ==
    /\ pc = "done"
    /\ Len(Leaves) = 2
    /\ Leaves[1].gate = "CZPow" /\ ClassifierLegal(Leaves[1])
    /\ SingleQubitWithMatrix(Leaves[2]) /\ ~ClassifierLegal(Leaves[2])

(* C2: an operation that is not legal, has no matrix on 1 or 2 qubits and  *)
(* no decomposition makes convert raise TypeError when ignore_failures is  *)
(* false, and is returned itself, with no error, when it is true.          *)
C2_FailurePolicy ==
    /\ \A i \in Ids :
          Unconvertible(created[i].op) =>
              IF ignore_failures
              THEN /\ created[i].ret = "op"
                   /\ pc # "raised"
                   /\ pc = "done" =>
                          \E k \in 1..Len(Leaves) : Leaves[k] = created[i].op
              ELSE /\ created[i].ret = "raise"
                   /\ pc = "raised"
    /\ (pc # "start" /\ Unconvertible(op0)) =>
          IF ignore_failures
          THEN pc = "done" /\ result = Leaf(op0)
          ELSE pc = "raised" /\ result = NoResult

(* convert has raised on an operation with a matrix on 3 qubits and no    *)
(* decomposition.                                                          *)
C2_Witness ==
    /\ ~ignore_failures
    /\ pc = "raised"
    /\ op0.mat /\ Len(op0.qubits) = 3 /\ Unconvertible(op0)

(* C3: optimization_at returns None exactly when convert(op) returned op   *)
(* itself, which is when nothing was rewritten; otherwise its summary has  *)
(* clear_span 1, op's qubits as clear_qubits and the leaf sequence of      *)
(* convert(op) as new operations.                                          *)
C3_Summary ==
    pc = "done" =>
        /\ summary = NoSummary <=> result = Leaf(op0)
        /\ result = Leaf(op0) <=> (Len(created) = 1 /\ created[1].ret = "op")
        /\ summary # NoSummary =>
              /\ ~summary.none
              /\ summary.clear_span = 1
              /\ summary.clear_qubits = op0.qubits
              /\ flatten_op_tree(summary.new_operations) = ExpectedLeaves(1)

(* A 3-qubit operation, qubits in reverse order, was replaced by two       *)
(* operations.                                                             *)
C3_Witness ==
    /\ pc = "done"
    /\ ~summary.none
    /\ summary.clear_qubits = <<3, 2, 1>>
    /\ Len(flatten_op_tree(summary.new_operations)) = 2

(* C4: a CZPowGate operation is returned unchanged by the first test if    *)
(* its exponent is 1 or allow_partial_czs is set; otherwise it goes on to  *)
(* the unitary, and from there to synthesis (with a matrix) or to          *)
(* decompose_once (without).                                               *)
C4_CZKept ==
    /\ \A i \in Ids :
          created[i].op.gate = "CZPow" =>
              IF created[i].op.exponent = "1" \/ allow_partial_czs
              THEN /\ created[i].ret = "op"
                   /\ created[i].via = "cz"
                   /\ created[i].calls = <<>>
              ELSE /\ created[i].via # "cz"
                   /\ created[i].calls # <<>>
                   /\ created[i].calls[1] = "unitary"
                   /\ created[i].op.mat => created[i].via = "synth"
                   /\ ~created[i].op.mat =>
                          created[i].calls[2] = "decompose_once"
    /\ (pc # "start" /\ op0.gate = "CZPow"
          /\ (op0.exponent = "1" \/ allow_partial_czs)) =>
          pc = "done" /\ result = Leaf(op0)

(* CZ**0.5 with allow_partial_czs false was synthesised, and the plain CZ  *)
(* of its synthesis was kept.                                              *)
C4_Witness ==
    /\ pc = "done"
    /\ ~allow_partial_czs
    /\ op0.gate = "CZPow" /\ op0.exponent = "0.5"
    /\ \E k \in 1..Len(Leaves) :
          Leaves[k].gate = "CZPow" /\ Leaves[k].exponent = "1"

C6_Idempotent ==
    pc = "done" =>
        \A k \in 1..Len(Leaves) :
            LET out == _convert_one(Leaves[k])
            IN  out.ret = "op" /\ IsUnchanged(Leaves[k], out)

(* The result holds an operation with a decomposition that was never       *)
(* needed (one qubit, with a matrix) beside one the failure policy let     *)
(* through.                                                                *)
C6_Witness ==
    /\ pc = "done"
    /\ Len(Leaves) = 2
    /\ SingleQubitWithMatrix(Leaves[1]) /\ Leaves[1].dec = "tree"
    /\ Unconvertible(Leaves[2])

(* C7: a measurement, on any number of qubits and under any configuration, *)
(* is returned itself, with no collaborator consulted and no error.        *)
C7_Measurement ==
    /\ \A i \in Ids :
          created[i].op.gate = "Meas" =>
              /\ created[i].ret = "op"
              /\ created[i].calls = <<>>
    /\ (pc # "start" /\ op0.gate = "Meas") =>
          /\ pc = "done"
          /\ result = Leaf(op0)
          /\ summary = NoSummary

(* A measurement of 3 qubits was converted with ignore_failures false.     *)
C7_Witness ==
    /\ pc = "done"
    /\ ~ignore_failures
    /\ op0.gate = "Meas" /\ Len(op0.qubits) = 3
    /\ result = Leaf(op0)

(* C8: the leaf sequence of what convert returns is the in-order           *)
(* concatenation of its children's converted leaf sequences: no child is   *)
(* dropped, duplicated or reordered, at any depth.  While a comprehension  *)
(* runs, what it has collected is that of the children yielded so far.     *)
C8_InOrder ==
    /\ pc = "done" => Leaves = ExpectedLeaves(1)
    /\ (pc = "convert" /\ Len(stack) = 1) =>
          FlattenFrom(stack[1].acc, 1) = ExpectedFrom(1, 2)

(* Two different children of op were converted and came out in the order  *)
(* the tree yielded them.                                                  *)
C8_Witness ==
    /\ pc = "done"
    /\ Len(created) = 3
    /\ created[2].parent = 1 /\ created[3].parent = 1
    /\ created[2].op.gate = "Meas" /\ created[3].op.gate = "CZPow"
    /\ Leaves = <<created[2].op, created[3].op>>

(* C9: with ignore_failures false, an unconvertible operation at any depth *)
(* makes the whole call fail: TypeError, no result, no summary, no frame   *)
(* left.  With ignore_failures true no call fails.                         *)
C9_FailureAborts ==
    /\ (~ignore_failures /\ \E i \in Ids : Unconvertible(created[i].op)) =>
          /\ pc = "raised"
          /\ stack = <<>>
          /\ result = NoResult
          /\ summary = NoSummary
    /\ ignore_failures => pc # "raised"
    /\ pc = "raised" => \E i \in Ids : Unconvertible(created[i].op)

(* The second child failed after the first had been converted.             *)
C9_Witness ==
    /\ pc = "raised"
    /\ Len(created) = 3
    /\ created[2].parent = 1 /\ created[2].ret = "op"
    /\ created[3].parent = 1 /\ Unconvertible(created[3].op)

Terminated == pc \in {"done", "raised"}

(* C10: convert(op) terminates, and a frame is only ever opened for an     *)
(* operation whose one-step conversion returned a tree that is not the     *)
(* operation: the recursion stops at every operation returned as itself.   *)
C10_Terminates ==
    /\ <>Terminated
    /\ [](\A f \in 1..Len(stack) : stack[f].ret = "tree")
    /\ [](pc # "overflow")

(* A call has ended whose tree yielded an operation that is its own        *)
(* decomposition.                                                          *)
C10_Witness ==
    /\ pc = "done"
    /\ \E k \in 1..Len(Leaves) :
          Leaves[k].id > 1 /\ OwnDecomposition(Leaves[k])

====
